---- MODULE Spec2Model ----
(***************************************************************************)
(* Model of the weather-agent backend: the /chat handler (main.py), the    *)
(* intent classifier (src/intent_classifier.py), the theory and weather    *)
(* handlers (src/handlers.py), the Gemini file-search tool                 *)
(* (src/file_search_tool.py) and the weather client                        *)
(* (src/weather_api_client.py).                                            *)
(*                                                                         *)
(* Text that the code inspects (queries, city names, error texts) is a     *)
(* sequence of one-character strings, so that lower(), strip(), replace()  *)
(* and the `in` substring test are computed character by character.        *)
(* Every external call (LLM, retrieval, weather provider) is a blocking    *)
(* round trip whose outcome is chosen nondeterministically.                *)
(***************************************************************************)
EXTENDS Integers, Sequences, FiniteSets, TLC

VARIABLES
    pc,              \* pc[r]: position of request r inside chat_endpoint
    running,         \* request whose coroutine holds the event loop, 0 if none
    user_session,    \* user_session["last_city"] (main.py:50-52)
    store_id,        \* whether GEMINI_STORE_ID is configured (file_search_tool.py:19)
    frame,           \* frame[r]: the live local variables of request r
    calls,           \* calls[r]: the external calls request r has made, in order
    response,        \* response[r]: what /chat answers for request r
    lastClassified   \* history: city of the latest classification that had one

vars == <<pc, running, user_session, store_id, frame, calls, response, lastClassified>>

----------------------------------------------------------------------------
(* Bounds of the model *)

MaxQueryLen == 2     \* longest query enumerated exhaustively over QueryAlphabet
DaysBelow == 2       \* extractor "days" values range down to 1 - DaysBelow
DaysAbove == 2       \* ... and up to MAX_FORECAST_DAYS + DaysAbove

(* Program constants *)

DEFAULT_DAYS == 1
MAX_FORECAST_DAYS == 7

Reqs == {1, 2}

----------------------------------------------------------------------------
(* Python string operations *)

UpperChars == <<"A","B","C","D","E","F","G","H","I","J","K","L","M","N","O","P","Q","R","S","T","U","V","W","X","Y","Z">>
LowerChars == <<"a","b","c","d","e","f","g","h","i","j","k","l","m","n","o","p","q","r","s","t","u","v","w","x","y","z">>

Lower(c) ==
    IF \E i \in 1..26 : UpperChars[i] = c
    THEN LowerChars[CHOOSE i \in 1..26 : UpperChars[i] = c]
    ELSE c

Upper(c) ==
    IF \E i \in 1..26 : LowerChars[i] = c
    THEN UpperChars[CHOOSE i \in 1..26 : LowerChars[i] = c]
    ELSE c

LowerStr(s) == [i \in 1..Len(s) |-> Lower(s[i])]
UpperStr(s) == [i \in 1..Len(s) |-> Upper(s[i])]

Whitespace == {" "}

RECURSIVE LStrip(_)
LStrip(s) == IF s # <<>> /\ Head(s) \in Whitespace THEN LStrip(Tail(s)) ELSE s

RECURSIVE RStrip(_)
RStrip(s) ==
    IF s # <<>> /\ s[Len(s)] \in Whitespace THEN RStrip(SubSeq(s, 1, Len(s) - 1)) ELSE s

Strip(s) == RStrip(LStrip(s))

\* s.replace(c, "")
RECURSIVE Remove(_, _)
Remove(s, c) ==
    IF s = <<>> THEN <<>>
    ELSE IF Head(s) = c THEN Remove(Tail(s), c)
    ELSE <<Head(s)>> \o Remove(Tail(s), c)

\* positions at which sub occurs in s
Occurrences(sub, s) ==
    {i \in 1..(Len(s) - Len(sub) + 1) : SubSeq(s, i, i + Len(sub) - 1) = sub}

\* sub in s
Contains(sub, s) == sub = <<>> \/ Occurrences(sub, s) # {}

----------------------------------------------------------------------------
(* Python values that a JSON payload can put where a city is expected *)

PyNone == [t |-> "none", v |-> <<>>]
PyObj == [t |-> "obj", v |-> <<>>]       \* a truthy non-string (number, list)
PyStr(s) == [t |-> "str", v |-> s]

Truthy(x) == x.t = "obj" \/ (x.t = "str" /\ x.v # <<>>)

NULL == <<"N","U","L","L">>

----------------------------------------------------------------------------
(* Replies: the fixed sentences and templates of the code, by name *)

NoReply ==
    [kind |-> "None", city |-> <<>>, err |-> <<>>, loc |-> "", temp |-> "",
     cond |-> "", text |-> ""]

Msg(k) == [NoReply EXCEPT !.kind = k]

LLMText(x) == [NoReply EXCEPT !.kind = "LLMText", !.text = x]

\* truthiness of a reply used as a Python value: None and "" are falsy
ReplyTruthy(m) == m.kind # "None" /\ ~(m.kind = "LLMText" /\ m.text = "")

NoResponse == [status |-> 0, body |-> NoReply, source |-> ""]

Ok(body, source) == [status |-> 200, body |-> body, source |-> source]

\* main.py:84-86
Http500 == [status |-> 500, body |-> NoReply, source |-> ""]

----------------------------------------------------------------------------
(* Inputs *)

QueryAlphabet == {"h", "i", "H", "!"}

RECURSIVE SeqsUpTo(_, _)
SeqsUpTo(S, n) ==
    IF n = 0 THEN {<<>>}
    ELSE LET shorter == SeqsUpTo(S, n - 1)
         IN shorter \cup {Append(s, c) : s \in shorter, c \in S}

SampleQueries ==
    { <<"H","e","l","l","o","!">>,
      <<"t","h","a","n","k","s",".">>,
      <<"g","o","o","d"," ","m","o","r","n","i","n","g">>,
      <<" ","h","i"," ">>,
      <<"r","a","i","n","?">> }

Queries == SeqsUpTo(QueryAlphabet, MaxQueryLen) \cup SampleQueries

CityNames == { <<"H">>, <<"h","i">> }

Intents == {"weather", "theory", "other"}

ClassifierCities ==
    {PyNone, PyStr(<<>>), PyStr(NULL), PyObj} \cup {PyStr(c) : c \in CityNames}

ClassifierOutcomes ==
    {[kind |-> k, intent |-> "theory", city |-> PyNone] : k \in {"error", "malformed"}}
    \cup {[kind |-> "json", intent |-> i, city |-> c] : i \in Intents, c \in ClassifierCities}

DaysInputs ==
    {[t |-> "int", v |-> d] : d \in (1 - DaysBelow)..(MAX_FORECAST_DAYS + DaysAbove)}
    \cup {[t |-> "missing", v |-> 0], [t |-> "bad", v |-> 0]}

ExtractorCities ==
    {PyNone, PyStr(<<>>), PyStr(<<"n","u","l","l">>), PyObj}
    \cup {PyStr(c) : c \in CityNames}

\* how an extraction call ended, as logged: the call raised, the content was
\* not JSON, the JSON held a value of a wrong type, or it was usable
ExtractorOutcomeKind(out) ==
    IF out.kind # "json" THEN out.kind
    ELSE IF out.city.t = "obj" \/ out.days.t = "bad" THEN "json-bad-type"
    ELSE "json"

ExtractorOutcomes ==
    {[kind |-> k, city |-> PyNone, days |-> [t |-> "missing", v |-> 0]] :
        k \in {"error", "malformed"}}
    \cup {[kind |-> "json", city |-> c, days |-> d] :
             c \in ExtractorCities, d \in DaysInputs}

Missing == "<missing>"

RawPayloads ==
    { [name |-> "Paris", country |-> "France", temp_c |-> "21.0", text |-> "Sunny"],
      [name |-> Missing, country |-> Missing, temp_c |-> Missing, text |-> Missing] }

NoPayload == [name |-> Missing, country |-> Missing, temp_c |-> Missing, text |-> Missing]

ProviderOutcomes ==
    {[kind |-> "200", raw |-> p] : p \in RawPayloads}
    \cup {[kind |-> k, raw |-> NoPayload] :
             k \in {"200-not-a-dict", "400", "401", "403", "500", "timeout", "connection"}}

\* a chat-completion call: content text, content None, or an exception
LLMOutcomes == {[ok |-> TRUE, body |-> LLMText("llm answer")],
                [ok |-> TRUE, body |-> Msg("None")],
                [ok |-> FALSE, body |-> NoReply]}

GeminiErrorTexts ==
    { <<"4","2","9">>,
      <<"e","r","r"," ","4","2","9"," ","q","u","o","t","a">>,
      <<"5","0","3">> }

\* a generate_content call: response.text (possibly "" or None), or an exception
GeminiOutcomes ==
    {[ok |-> TRUE, body |-> b, err |-> <<>>] :
        b \in {LLMText("gemini text"), LLMText(""), Msg("None")}}
    \cup {[ok |-> FALSE, body |-> NoReply, err |-> e] : e \in GeminiErrorTexts}

----------------------------------------------------------------------------
(* src/handlers.py and src/file_search_tool.py: the greeting tables *)

TheoryGreetings ==
    { <<"h","i">>, <<"h","e","l","l","o">>, <<"h","e","y">>, <<"h","o","l","a">> }

\* mutant: handle_theory without its local greeting check
IsTheoryGreeting_Off(q) == FALSE

\* handlers.py:21   user_query.lower().strip() in greetings
IsTheoryGreeting(q) == Strip(LowerStr(q)) \in TheoryGreetings

SearchGreetings ==
    { <<"h","i">>, <<"h","e","l","l","o">>, <<"h","e","y">>, <<"h","o","l","a">>,
      <<"n","a","m","a","s","t","e">>, <<"t","h","a","n","k","s">>,
      <<"t","h","a","n","k"," ","y","o","u">>, <<"b","y","e">>,
      <<"g","o","o","d"," ","m","o","r","n","i","n","g">> }

\* file_search_tool.py:36   query.strip().lower().replace("!", "").replace(".", "")
CleanedQuery(q) == Remove(Remove(LowerStr(Strip(q)), "!"), ".")

\* file_search_tool.py:38
IsSearchGreeting(q) == CleanedQuery(q) \in SearchGreetings

\* file_search_tool.py:74-78   the outer handler of search()
SearchErrorReply(e) ==
    IF Contains(<<"4","2","9">>, e) THEN Msg("RateLimit") ELSE Msg("ConnTrouble")

----------------------------------------------------------------------------
(* src/intent_classifier.py *)

Fallback == [intent |-> "theory", city |-> PyNone]

\* mutant: the except branch answers with the weather intent
classify_FallbackWeather(out) ==
    IF out.kind = "json" THEN [intent |-> out.intent, city |-> out.city]
    ELSE [intent |-> "weather", city |-> PyNone]

\* IntentClassifier.classify: json.loads of the content, or the fallback
classify(out) ==
    IF out.kind = "json" THEN [intent |-> out.intent, city |-> out.city] ELSE Fallback

----------------------------------------------------------------------------
(* main.py: the memory rule and the merged query *)

\* mutant: the "NULL" sentinel is not filtered
CityDetected_NoSentinel(detected_city) == Truthy(detected_city)

\* main.py:65   detected_city and detected_city != "NULL"
CityDetected(detected_city) == Truthy(detected_city) /\ detected_city # PyStr(NULL)

InSep == <<" ","i","n"," ">>

\* mutant: the presence test compares without lower()
EnhancedQuery_CaseSensitive(user_query, final_city) ==
    IF Contains(final_city, user_query)
    THEN user_query
    ELSE user_query \o InSep \o final_city

\* main.py:76   final_city is a str here
EnhancedQuery(user_query, final_city) ==
    IF Contains(LowerStr(final_city), LowerStr(user_query))
    THEN user_query
    ELSE user_query \o InSep \o final_city

----------------------------------------------------------------------------
(* src/weather_api_client.py *)

Max(a, b) == IF b > a THEN b ELSE a
Min(a, b) == IF b < a THEN b ELSE a

\* mutant: only the upper bound is applied
ClampDays_NoLowerBound(days) == Min(days, MAX_FORECAST_DAYS)

\* weather_api_client.py:163
ClampDays(days) == Max(1, Min(days, MAX_FORECAST_DAYS))

\* mutant: the "NULL" literal compared without upper()
extract_location_and_days_ExactNull(out) ==
    LET raised == [raised |-> TRUE, city |-> PyNone, days |-> 0]
    IN IF out.kind # "json" THEN raised
       ELSE IF Truthy(out.city) /\ out.city.t # "str" THEN raised
       ELSE IF out.days.t = "bad" THEN raised
       ELSE [raised |-> FALSE,
             city |-> IF Truthy(out.city) /\ out.city.v = NULL
                      THEN PyNone ELSE out.city,
             days |-> ClampDays(IF out.days.t = "missing"
                                THEN DEFAULT_DAYS ELSE out.days.v)]

\* _extract_location_and_days: (city, days), or raised when WeatherAPIError
extract_location_and_days(out) ==
    LET raised == [raised |-> TRUE, city |-> PyNone, days |-> 0]
    IN IF out.kind # "json" THEN raised
       ELSE IF Truthy(out.city) /\ out.city.t # "str" THEN raised  \* no .upper()
       ELSE IF out.days.t = "bad" THEN raised                      \* min() TypeError
       ELSE [raised |-> FALSE,
             city |-> IF Truthy(out.city) /\ UpperStr(out.city.v) = NULL
                      THEN PyNone ELSE out.city,
             days |-> ClampDays(IF out.days.t = "missing"
                                THEN DEFAULT_DAYS ELSE out.days.v)]

NoData == [location |-> "", temp |-> "", condition |-> ""]

Get(x, default) == IF x = Missing THEN default ELSE x

\* _clean_weather_data: the fields of the Snapshot that are read again
clean_weather_data(raw) ==
    [location |-> Get(raw.name, "Unknown") \o ", " \o Get(raw.country, "Unknown"),
     temp |-> Get(raw.temp_c, "N/A") \o " C",
     condition |-> Get(raw.text, "N/A")]

Failure(text) == [success |-> FALSE, error |-> text, data |-> NoData]

ErrCityNotFound == <<"C","i","t","y"," ","n","o","t"," ","f","o","u","n","d">>
ErrAuthFailed == <<"A","P","I"," ","a","u","t","h","e","n","t","i","c","a","t","i","o","n"," ","f","a","i","l","e","d">>
ErrAccessDenied == <<"A","P","I"," ","a","c","c","e","s","s"," ","d","e","n","i","e","d">>
ErrTimedOut == <<"R","e","q","u","e","s","t"," ","t","i","m","e","d"," ","o","u","t">>
ErrFetchFailed == <<"F","a","i","l","e","d"," ","t","o"," ","f","e","t","c","h"," ","w","e","a","t","h","e","r"," ","d","a","t","a">>
ErrUnexpected == <<"A","n"," ","u","n","e","x","p","e","c","t","e","d"," ","e","r","r","o","r"," ","o","c","c","u","r","r","e","d">>

\* mutant: status 400 is left to raise_for_status
fetch_raw_weather_No400(out) ==
    CASE out.kind = "401" -> Failure(ErrAuthFailed)
      [] out.kind = "403" -> Failure(ErrAccessDenied)
      [] out.kind = "200" ->
            [success |-> TRUE, error |-> <<>>, data |-> clean_weather_data(out.raw)]
      [] out.kind = "timeout" -> Failure(ErrTimedOut)
      [] out.kind \in {"400", "500", "connection"} -> Failure(ErrFetchFailed)
      [] OTHER -> Failure(ErrUnexpected)

\* mutant: without raise_for_status, a 500 answer is parsed like a 200
fetch_raw_weather_NoRaiseForStatus(out) ==
    CASE out.kind = "400" -> Failure(ErrCityNotFound)
      [] out.kind = "401" -> Failure(ErrAuthFailed)
      [] out.kind = "403" -> Failure(ErrAccessDenied)
      [] out.kind \in {"200", "500"} ->
            [success |-> TRUE, error |-> <<>>, data |-> clean_weather_data(out.raw)]
      [] out.kind = "timeout" -> Failure(ErrTimedOut)
      [] out.kind = "connection" -> Failure(ErrFetchFailed)
      [] OTHER -> Failure(ErrUnexpected)

\* _fetch_raw_weather: the tagged result for each answer of the provider
fetch_raw_weather(out) ==
    CASE out.kind = "400" -> Failure(ErrCityNotFound)
      [] out.kind = "401" -> Failure(ErrAuthFailed)
      [] out.kind = "403" -> Failure(ErrAccessDenied)
      [] out.kind = "200" ->
            [success |-> TRUE, error |-> <<>>, data |-> clean_weather_data(out.raw)]
      [] out.kind = "timeout" -> Failure(ErrTimedOut)             \* requests.Timeout
      [] out.kind \in {"500", "connection"} -> Failure(ErrFetchFailed)
      [] OTHER -> Failure(ErrUnexpected)                          \* e.g. payload.get fails

\* get_weather, lines 361-374: the sentence for a failed fetch
ErrorSentence(error_msg, city) ==
    LET low == LowerStr(error_msg)
    IN IF Contains(<<"n","o","t"," ","f","o","u","n","d">>, low)
       THEN [Msg("NotFound") EXCEPT !.city = city]
       ELSE IF Contains(<<"a","u","t","h","e","n","t","i","c","a","t","i","o","n">>, low)
               \/ Contains(<<"d","e","n","i","e","d">>, low)
       THEN Msg("TechnicalDifficulties")
       ELSE IF Contains(<<"t","i","m","e","o","u","t">>, low)
       THEN Msg("TakingTooLong")
       ELSE [Msg("Issue") EXCEPT !.err = error_msg]

\* mutant: the fallback reads "temp" and "condition" at the top level of the
\* snapshot instead of under "current", so the defaults are printed
FallbackSentence_TopLevelKeys(data) ==
    [Msg("Templated") EXCEPT !.loc = data.location, !.temp = "N/A",
                             !.cond = "N/A"]

\* _generate_conversational_response, lines 317-321: "Weather in {location}: {temp}, {condition}."
FallbackSentence(data) ==
    [Msg("Templated") EXCEPT !.loc = data.location, !.temp = data.temp,
                             !.cond = data.condition]

----------------------------------------------------------------------------
(* State *)

Frame0 ==
    [user_query |-> <<>>, intent |-> "", detected_city |-> PyNone,
     final_city |-> PyNone, enhanced_query |-> <<>>, city |-> <<>>, days |-> 0,
     data |-> NoData, raw_knowledge |-> NoReply, memAtEntry |-> PyNone]

\* one external call: the service, how it ended, the error text of a failed
\* Gemini call, and the arguments (location, days) where the claims read them
Call(svc, out) == [svc |-> svc, out |-> out, err |-> <<>>, city |-> <<>>, days |-> 0]

Init ==
    /\ pc = [r \in Reqs |-> "idle"]
    /\ running = 0
    /\ user_session = PyNone
    /\ store_id \in BOOLEAN
    /\ frame = [r \in Reqs |-> Frame0]
    /\ calls = [r \in Reqs |-> <<>>]
    /\ response = [r \in Reqs |-> NoResponse]
    /\ lastClassified = PyNone

\* mutant: handlers run on threads, any request may take a step at any time
EventLoopFree_Threaded(r) == TRUE

\* chat_endpoint is a coroutine with no await in its body: once the event
\* loop has entered it, no other request runs until it returns.
EventLoopFree(r) == running \in {0, r}

----------------------------------------------------------------------------
(* Actions: one per step of chat_endpoint between two external calls *)

Finish(r, resp) ==
    /\ response' = [response EXCEPT ![r] = resp]
    /\ pc' = [pc EXCEPT ![r] = "respond"]

\* a client posts to /chat; the request waits for the event loop
Arrive(r) ==
    /\ pc[r] = "idle"
    /\ pc' = [pc EXCEPT ![r] = "pending"]
    /\ UNCHANGED <<running, user_session, store_id, frame, calls, response, lastClassified>>

\* main.py:55-57   the event loop enters the handler
Begin(r) ==
    /\ pc[r] = "pending"
    /\ EventLoopFree(r)
    /\ \E q \in Queries :
          frame' = [frame EXCEPT ![r] =
                       [Frame0 EXCEPT !.user_query = q, !.memAtEntry = user_session]]
    /\ running' = r
    /\ pc' = [pc EXCEPT ![r] = "classify"]
    /\ UNCHANGED <<user_session, store_id, calls, response, lastClassified>>

\* main.py:60-62   classify_intent(user_query)
Classify(r) ==
    /\ pc[r] = "classify"
    /\ EventLoopFree(r)
    /\ \E out \in ClassifierOutcomes :
          LET intent_data == classify(out)
          IN /\ frame' = [frame EXCEPT ![r].intent = intent_data.intent,
                                       ![r].detected_city = intent_data.city]
             /\ calls' = [calls EXCEPT ![r] = Append(@, Call("classify", out.kind))]
             /\ lastClassified' =
                   IF intent_data.city \notin {PyNone, PyStr(<<>>), PyStr(NULL)}
                   THEN intent_data.city ELSE lastClassified
    /\ pc' = [pc EXCEPT ![r] = "memory"]
    /\ UNCHANGED <<running, user_session, store_id, response>>

\* main.py:64-69   Context Memory Logic
Memory(r) ==
    /\ pc[r] = "memory"
    /\ EventLoopFree(r)
    /\ IF CityDetected(frame[r].detected_city)
       THEN /\ user_session' = frame[r].detected_city
            /\ frame' = [frame EXCEPT ![r].final_city = frame[r].detected_city]
       ELSE /\ frame' = [frame EXCEPT ![r].final_city = user_session]
            /\ UNCHANGED user_session
    /\ pc' = [pc EXCEPT ![r] = "route"]
    /\ UNCHANGED <<running, store_id, calls, response, lastClassified>>

\* main.py:71-82, handlers.py:18-22   the branch on intent, up to the first
\* call of the branch taken
Route(r) ==
    /\ pc[r] = "route"
    /\ EventLoopFree(r)
    /\ LET f == frame[r]
       IN IF f.intent = "weather"
          THEN IF ~Truthy(f.final_city)
               THEN /\ Finish(r, Ok(Msg("WhichCity"), "System"))
                    /\ UNCHANGED frame
               ELSE IF f.final_city.t # "str"
               THEN \* final_city.lower() raises AttributeError (main.py:76, 84-86)
                    /\ Finish(r, Http500)
                    /\ UNCHANGED frame
               ELSE /\ frame' = [frame EXCEPT ![r].enhanced_query =
                                    EnhancedQuery(f.user_query, f.final_city.v)]
                    /\ pc' = [pc EXCEPT ![r] = "get_weather"]
                    /\ UNCHANGED response
          ELSE IF IsTheoryGreeting(f.user_query)
               THEN /\ Finish(r, Ok(Msg("Intro"), "Knowledge Base (PDF)"))
                    /\ UNCHANGED frame
               ELSE \* handle_theory reads user_query alone
                    /\ frame' = [frame EXCEPT ![r] =
                                    [Frame0 EXCEPT !.user_query = f.user_query]]
                    /\ pc' = [pc EXCEPT ![r] = "search"]
                    /\ UNCHANGED response
    /\ UNCHANGED <<running, user_session, store_id, calls, lastClassified>>

\* mutant: the Gateway is given the city argument of handle_live_weather
\* (the Router or memory city) in place of the extracted one
GetWeather_UsesHandlerCity(r) ==
    /\ pc[r] = "get_weather"
    /\ EventLoopFree(r)
    /\ LET f == frame[r]
           input_text == IF f.enhanced_query # <<>> THEN f.enhanced_query
                         ELSE f.final_city.v
           kept == [Frame0 EXCEPT !.final_city = f.final_city]
       IN IF Strip(input_text) = <<>>
          THEN /\ Finish(r, Ok(Msg("AskLocation"), "Live Weather API"))
               /\ frame' = [frame EXCEPT ![r] = kept]
               /\ UNCHANGED calls
          ELSE \E out \in ExtractorOutcomes :
                  LET e == extract_location_and_days(out)
                  IN /\ calls' = [calls EXCEPT ![r] =
                           Append(@, [Call("extract", ExtractorOutcomeKind(out)) EXCEPT
                                         !.city = out.city.v,
                                         !.days = IF out.days.t = "int"
                                                  THEN out.days.v ELSE DEFAULT_DAYS])]
                     /\ IF e.raised
                        THEN /\ Finish(r, Ok(Msg("Rephrase"), "Live Weather API"))
                             /\ frame' = [frame EXCEPT ![r] = kept]
                        ELSE IF ~Truthy(e.city)
                        THEN /\ Finish(r, Ok(Msg("SpecifyCity"), "Live Weather API"))
                             /\ frame' = [frame EXCEPT ![r] = kept]
                        ELSE /\ frame' = [frame EXCEPT ![r] =
                                             [kept EXCEPT !.city = f.final_city.v, !.days = e.days]]
                             /\ pc' = [pc EXCEPT ![r] = "fetch"]
                             /\ UNCHANGED response
    /\ UNCHANGED <<running, user_session, store_id, lastClassified>>

\* handlers.py:14-16, weather_api_client.py:338-356   get_weather up to the
\* Gateway call. The locals of chat_endpoint that are not read again
\* (user_query, intent_data, the merged query) are dropped from the frame.
GetWeather(r) ==
    /\ pc[r] = "get_weather"
    /\ EventLoopFree(r)
    /\ LET f == frame[r]
           input_text == IF f.enhanced_query # <<>> THEN f.enhanced_query
                         ELSE f.final_city.v
           kept == [Frame0 EXCEPT !.final_city = f.final_city]
       IN IF Strip(input_text) = <<>>
          THEN /\ Finish(r, Ok(Msg("AskLocation"), "Live Weather API"))
               /\ frame' = [frame EXCEPT ![r] = kept]
               /\ UNCHANGED calls
          ELSE \E out \in ExtractorOutcomes :
                  LET e == extract_location_and_days(out)
                  IN /\ calls' = [calls EXCEPT ![r] =
                           Append(@, [Call("extract", ExtractorOutcomeKind(out)) EXCEPT
                                         !.city = out.city.v,
                                         !.days = IF out.days.t = "int"
                                                  THEN out.days.v ELSE DEFAULT_DAYS])]
                     /\ IF e.raised
                        THEN /\ Finish(r, Ok(Msg("Rephrase"), "Live Weather API"))
                             /\ frame' = [frame EXCEPT ![r] = kept]
                        ELSE IF ~Truthy(e.city)
                        THEN /\ Finish(r, Ok(Msg("SpecifyCity"), "Live Weather API"))
                             /\ frame' = [frame EXCEPT ![r] = kept]
                        ELSE /\ frame' = [frame EXCEPT ![r] =
                                             [kept EXCEPT !.city = e.city.v, !.days = e.days]]
                             /\ pc' = [pc EXCEPT ![r] = "fetch"]
                             /\ UNCHANGED response
    /\ UNCHANGED <<running, user_session, store_id, lastClassified>>

\* weather_api_client.py:359-374   the Gateway call and the failure sentences
Fetch(r) ==
    /\ pc[r] = "fetch"
    /\ EventLoopFree(r)
    /\ \E out \in ProviderOutcomes :
          LET weather_result == fetch_raw_weather(out)
              f == frame[r]
          IN /\ calls' = [calls EXCEPT ![r] =
                   Append(@, [Call("weather", out.kind) EXCEPT
                                 !.city = f.city, !.days = f.days])]
             /\ IF ~weather_result.success
                THEN /\ Finish(r, Ok(ErrorSentence(weather_result.error, f.city),
                                     "Live Weather API"))
                     /\ UNCHANGED frame
                ELSE /\ frame' = [frame EXCEPT ![r].data = weather_result.data]
                     /\ pc' = [pc EXCEPT ![r] = "synth"]
                     /\ UNCHANGED response
    /\ UNCHANGED <<running, user_session, store_id, lastClassified>>

\* weather_api_client.py:376-382, 298-321   the Response Synthesizer
Synth(r) ==
    /\ pc[r] = "synth"
    /\ EventLoopFree(r)
    /\ \E out \in LLMOutcomes :
          /\ calls' = [calls EXCEPT ![r] =
                Append(@, Call("synth_weather", IF out.ok THEN "ok" ELSE "error"))]
          /\ Finish(r, Ok(IF out.ok THEN out.body ELSE FallbackSentence(frame[r].data),
                          "Live Weather API"))
    /\ UNCHANGED <<running, user_session, store_id, frame, lastClassified>>

\* mutant: search() without the return after the grounded call, so a
\* successful grounded answer still falls through to the plain-chat call
Search_FallsThrough(r) ==
    /\ pc[r] = "search"
    /\ EventLoopFree(r)
    /\ IF IsSearchGreeting(frame[r].user_query)
       THEN /\ frame' = [frame EXCEPT ![r].raw_knowledge = Msg("SearchGreeting")]
            /\ pc' = [pc EXCEPT ![r] = "knowledge"]
            /\ UNCHANGED calls
       ELSE IF store_id
       THEN \E out \in GeminiOutcomes :
               /\ calls' = [calls EXCEPT ![r] =
                     Append(@, [Call("rag", IF out.ok THEN "ok" ELSE "error")
                                   EXCEPT !.err = out.err])]
               /\ pc' = [pc EXCEPT ![r] = "chat"]
               /\ UNCHANGED frame
       ELSE /\ pc' = [pc EXCEPT ![r] = "chat"]
            /\ UNCHANGED <<frame, calls>>
    /\ UNCHANGED <<running, user_session, store_id, response, lastClassified>>

\* file_search_tool.py:34-63   search(): the local greetings, then the
\* grounded call when a store is configured
Search(r) ==
    /\ pc[r] = "search"
    /\ EventLoopFree(r)
    /\ IF IsSearchGreeting(frame[r].user_query)
       THEN /\ frame' = [frame EXCEPT ![r].raw_knowledge = Msg("SearchGreeting")]
            /\ pc' = [pc EXCEPT ![r] = "knowledge"]
            /\ UNCHANGED calls
       ELSE IF store_id
       THEN \E out \in GeminiOutcomes :
               /\ calls' = [calls EXCEPT ![r] =
                     Append(@, [Call("rag", IF out.ok THEN "ok" ELSE "error")
                                   EXCEPT !.err = out.err])]
               /\ IF out.ok
                  THEN /\ frame' = [frame EXCEPT ![r].raw_knowledge = out.body]
                       /\ pc' = [pc EXCEPT ![r] = "knowledge"]
                  ELSE /\ pc' = [pc EXCEPT ![r] = "chat"]
                       /\ UNCHANGED frame
       ELSE /\ pc' = [pc EXCEPT ![r] = "chat"]
            /\ UNCHANGED <<frame, calls>>
    /\ UNCHANGED <<running, user_session, store_id, response, lastClassified>>

\* file_search_tool.py:65-78   the plain-chat call and the outer handler
Chat(r) ==
    /\ pc[r] = "chat"
    /\ EventLoopFree(r)
    /\ \E out \in GeminiOutcomes :
          /\ calls' = [calls EXCEPT ![r] =
                Append(@, [Call("chat", IF out.ok THEN "ok" ELSE "error")
                              EXCEPT !.err = out.err])]
          /\ frame' = [frame EXCEPT ![r].raw_knowledge =
                          IF out.ok THEN out.body ELSE SearchErrorReply(out.err)]
    /\ pc' = [pc EXCEPT ![r] = "knowledge"]
    /\ UNCHANGED <<running, user_session, store_id, response, lastClassified>>

\* handlers.py:27-30, 34-64   the rest of handle_theory
Knowledge(r) ==
    /\ pc[r] = "knowledge"
    /\ EventLoopFree(r)
    /\ IF ~ReplyTruthy(frame[r].raw_knowledge)
       THEN /\ Finish(r, Ok(Msg("NoInfo"), "Knowledge Base (PDF)"))
            /\ UNCHANGED calls
       ELSE \E out \in LLMOutcomes :
               /\ calls' = [calls EXCEPT ![r] =
                     Append(@, Call("synth_theory", IF out.ok THEN "ok" ELSE "error"))]
               /\ Finish(r, Ok(IF out.ok THEN out.body ELSE Msg("SynthApology"),
                               "Knowledge Base (PDF)"))
    /\ UNCHANGED <<running, user_session, store_id, frame, lastClassified>>

\* the handler returns: the answer is sent and the event loop is released
Respond(r) ==
    /\ pc[r] = "respond"
    /\ EventLoopFree(r)
    /\ pc' = [pc EXCEPT ![r] = "idle"]
    /\ running' = 0
    /\ frame' = [frame EXCEPT ![r] = Frame0]
    /\ calls' = [calls EXCEPT ![r] = <<>>]
    /\ response' = [response EXCEPT ![r] = NoResponse]
    /\ UNCHANGED <<user_session, store_id, lastClassified>>

Next ==
    \E r \in Reqs :
        \/ Arrive(r)
        \/ Begin(r)
        \/ Classify(r)
        \/ Memory(r)
        \/ Route(r)
        \/ GetWeather(r)
        \/ Fetch(r)
        \/ Synth(r)
        \/ Search(r)
        \/ Chat(r)
        \/ Knowledge(r)
        \/ Respond(r)

Spec == Init /\ [][Next]_vars

\* the event loop keeps running whatever is ready
FairSpec == Spec /\ WF_vars(Next)

----------------------------------------------------------------------------
(* Properties *)

KB == "Knowledge Base (PDF)"
LWA == "Live Weather API"

LastCall(r) == calls[r][Len(calls[r])]

CallsTo(r, svcs) == {i \in DOMAIN calls[r] : calls[r][i].svc \in svcs}

KnowledgeCalls(r) == CallsTo(r, {"rag", "chat", "synth_theory"})

MatchesGreetingTable(q) == IsTheoryGreeting(q) \/ IsSearchGreeting(q)

\* C1: every query that matches the greeting table after case-folding and
\* punctuation stripping is answered by Knowledge Lookup with a fixed
\* introduction text and without any retrieval, chat or synthesis call.
C1_GreetingZeroCalls ==
    \A r \in Reqs :
        (pc[r] = "respond" /\ response[r].source = KB
         /\ MatchesGreetingTable(frame[r].user_query))
        => /\ KnowledgeCalls(r) = {}
           /\ response[r].body \in {Msg("Intro"), Msg("SearchGreeting")}

\* C2: whenever a call to the retrieval provider fails with an error whose
\* text contains "429", the reply of Knowledge Lookup is the rate-limit
\* message, whatever the other calls of the query did.
C2_RateLimitReply ==
    \A r \in Reqs :
        (pc[r] = "respond"
         /\ \E i \in CallsTo(r, {"rag", "chat"}) :
               calls[r][i].out = "error" /\ Contains(<<"4","2","9">>, calls[r][i].err))
        => response[r].body = Msg("RateLimit")

\* the five failure categories of the claim, by what the provider did
Category(kind) ==
    CASE kind = "400" -> "not-found"
      [] kind = "401" -> "authentication"
      [] kind = "403" -> "forbidden"
      [] kind = "timeout" -> "timeout"
      [] OTHER -> "generic"

FailureKinds == {"400", "401", "403", "500", "timeout", "connection", "200-not-a-dict"}

\* C3: the failure categories map one-to-one to sentences: the sentence a
\* request gets for a failed fetch is a template that no other category yields.
C3_CategoriesOneToOne ==
    \A r \in Reqs :
        (pc[r] = "respond" /\ calls[r] # <<>> /\ LastCall(r).svc = "weather"
         /\ LastCall(r).out \in FailureKinds)
        => \A k \in FailureKinds :
              Category(k) # Category(LastCall(r).out)
              => ErrorSentence(fetch_raw_weather([kind |-> k, raw |-> NoPayload]).error,
                               frame[r].city).kind
                 # response[r].body.kind

\* the case of C4: nothing classified, a remembered city is used
MergedFromMemory(r) ==
    /\ pc[r] = "get_weather"
    /\ ~CityDetected(frame[r].detected_city)
    /\ frame[r].final_city.t = "str"

CountIn(city, text) == Cardinality(Occurrences(LowerStr(city), LowerStr(text)))

\* C4 as stated: the merged query contains the remembered city exactly once.
C4_ExactlyOnce ==
    \A r \in Reqs :
        MergedFromMemory(r)
        => CountIn(frame[r].final_city.v, frame[r].enhanced_query) = 1

\* C4 amended: the merged query contains the remembered city at least once;
\* it is the query unchanged when the query already contains the city
\* (case-insensitively), and the query followed by " in <city>" otherwise.
C4_MergedContainsCity ==
    \A r \in Reqs :
        MergedFromMemory(r)
        => LET f == frame[r]
               c == f.final_city.v
           IN /\ CountIn(c, f.enhanced_query) >= 1
              /\ CountIn(c, f.user_query) >= 1 => f.enhanced_query = f.user_query
              /\ CountIn(c, f.user_query) = 0
                 => f.enhanced_query = f.user_query \o InSep \o c

\* a query that holds the remembered city in another letter case is passed on
\* unchanged
C4_Witness ==
    \E r \in Reqs :
        /\ MergedFromMemory(r)
        /\ ~Contains(frame[r].final_city.v, frame[r].user_query)
        /\ frame[r].enhanced_query = frame[r].user_query

\* C5: whatever integer the extraction LLM returns for days (or none), the
\* Gateway is only ever called with days in [1,7].
C5_GatewayDaysInRange ==
    \A r \in Reqs :
        \A i \in CallsTo(r, {"weather"}) :
            calls[r][i].days \in 1..MAX_FORECAST_DAYS

\* the Gateway was called after the extractor returned a days value below 1
C5_Witness ==
    \E r \in Reqs :
        /\ CallsTo(r, {"weather"}) # {}
        /\ \E i \in CallsTo(r, {"extract"}) : calls[r][i].days < 1

\* C6: when the provider answers 400 for the resolved city, the reply is the
\* "couldn't find weather data for '<city>'" sentence naming that city, never
\* the generic "I encountered an issue" sentence.
C6_NotFoundNamesCity ==
    \A r \in Reqs :
        (pc[r] = "respond" /\ calls[r] # <<>> /\ LastCall(r).svc = "weather"
         /\ LastCall(r).out = "400")
        => /\ response[r].body = [Msg("NotFound") EXCEPT !.city = LastCall(r).city]
           /\ response[r].source = LWA

C6_Witness ==
    \E r \in Reqs :
        /\ pc[r] = "respond" /\ calls[r] # <<>>
        /\ LastCall(r).svc = "weather" /\ LastCall(r).out = "400"
        /\ LastCall(r).city = <<"h","i">>

ClassifierFailed(r) ==
    calls[r] # <<>> /\ calls[r][1].svc = "classify" /\ calls[r][1].out # "json"

\* C7: when the classification call fails or its content is not JSON,
\* classify_intent returns the fallback {intent: "theory", city: null} after
\* that single call, and the request is served by the theory branch: it never
\* enters the weather flow and is answered with status 200.
C7_ClassifierFallback ==
    \A r \in Reqs :
        ClassifierFailed(r)
        => /\ Cardinality(CallsTo(r, {"classify"})) = 1
           /\ pc[r] \in {"memory", "route"}
              => frame[r].intent = "theory" /\ frame[r].detected_city = PyNone
           /\ pc[r] \notin {"get_weather", "fetch", "synth"}
           /\ CallsTo(r, {"extract", "weather", "synth_weather"}) = {}
           /\ pc[r] = "respond" => response[r].status = 200 /\ response[r].source = KB

C7_Witness ==
    \E r \in Reqs :
        /\ ClassifierFailed(r) /\ calls[r][1].out = "malformed"
        /\ pc[r] = "respond" /\ response[r].source = KB
        /\ KnowledgeCalls(r) # {}

NoCity == {PyNone, PyStr(<<>>), PyStr(NULL)}

\* C8: outside the two lines between a classification and its memory update,
\* last_city is the city of the latest classification that had one (None
\* before any); the slot only ever changes to such a city, so once set it
\* never reverts to absent and never holds "NULL".
C8_MemoryIsLastCity ==
    /\ []((\A r \in Reqs : pc[r] # "memory") => user_session = lastClassified)
    /\ [][user_session' # user_session
          => /\ user_session' \notin NoCity
             /\ \E r \in Reqs : user_session' = frame[r].detected_city]_vars

\* a request whose classification had the "NULL" sentinel left a remembered
\* city in place
C8_Witness ==
    \E r \in Reqs :
        /\ pc[r] = "route"
        /\ frame[r].detected_city = PyStr(NULL)
        /\ frame[r].memAtEntry = PyStr(<<"h","i">>)
        /\ user_session = PyStr(<<"h","i">>)

InHandler(r) == pc[r] \notin {"idle", "pending"}

\* request r is about to call the Weather Orchestrator with a remembered city
\* that is not the one the slot held when r entered the handler
Race(r) ==
    /\ pc[r] = "get_weather"
    /\ ~CityDetected(frame[r].detected_city)
    /\ frame[r].final_city # frame[r].memAtEntry

\* one request is inside the handler while another has arrived and waits
TwoInFlight == \E r1, r2 \in Reqs : r1 # r2 /\ InHandler(r1) /\ pc[r2] = "pending"

\* C9 as stated: runs that keep having two requests in flight reach the
\* racing interleaving.
C9_RaceOccurs == []<>TwoInFlight => <>(\E r \in Reqs : Race(r))

\* C9 amended: chat_endpoint is a coroutine that never awaits, so two
\* requests are never inside the handler at once and no request's write falls
\* between another request's classification and its use of the city: a
\* request that classified no city uses the value the slot held when it
\* entered the handler.
C9_NoRacingWrite ==
    /\ \A r1, r2 \in Reqs : InHandler(r1) /\ InHandler(r2) => r1 = r2
    /\ \A r \in Reqs :
          (pc[r] \in {"route", "get_weather"} /\ ~CityDetected(frame[r].detected_city))
          => frame[r].final_city = frame[r].memAtEntry

\* two requests in flight: one waits while the other dispatches the Weather
\* Orchestrator with the remembered city
C9_Witness ==
    \E r1, r2 \in Reqs :
        /\ r1 # r2 /\ pc[r2] = "pending"
        /\ pc[r1] = "get_weather"
        /\ ~CityDetected(frame[r1].detected_city)
        /\ frame[r1].final_city = PyStr(<<"h","i">>)

\* C10: whatever the external calls return or raise, /chat answers with
\* status 200, never with the 500 error status.
C10_Never500 ==
    \A r \in Reqs : pc[r] = "respond" => response[r].status = 200


Hi == <<"h","i">>

\* C11 as stated: a /chat request with query "hi" makes no provider call at
\* all and answers with the canned greeting from the Knowledge Base.
C11_HiNoProviderCall ==
    \A r \in Reqs :
        (InHandler(r) /\ frame[r].user_query = Hi)
        => /\ calls[r] = <<>>
           /\ pc[r] = "respond" => response[r] = Ok(Msg("Intro"), KB)

\* C11 amended: a /chat request with query "hi" first makes the
\* classification call; when it is not classified as weather it makes no
\* other call (no retrieval, chat or synthesis) and answers with the canned
\* greeting and the source label "Knowledge Base (PDF)".
C11_HiOnlyClassified ==
    \A r \in Reqs :
        (InHandler(r) /\ frame[r].user_query = Hi)
        => /\ pc[r] # "classify"
              => Len(calls[r]) >= 1 /\ calls[r][1].svc = "classify"
           /\ pc[r] \notin {"search", "chat", "knowledge"}
           /\ KnowledgeCalls(r) = {}
           /\ (pc[r] = "respond" /\ frame[r].intent # "weather")
              => /\ response[r] = Ok(Msg("Intro"), KB)
                 /\ Len(calls[r]) = 1

C11_Witness ==
    \E r \in Reqs :
        /\ pc[r] = "respond" /\ frame[r].user_query = Hi
        /\ frame[r].intent = "theory"
        /\ response[r] = Ok(Msg("Intro"), KB)
        /\ Len(calls[r]) = 1 /\ calls[r][1].out = "json"

\* the Entity Extractor answered usable JSON whose city is absent, empty or
\* the literal "NULL" in any letter case
ExtractedNoCity(c) ==
    /\ c.svc = "extract" /\ c.out = "json"
    /\ (c.city = <<>> \/ UpperStr(c.city) = NULL)

\* C12: when the Entity Extractor resolves no city (absent, empty, or "NULL"
\* in any letter case), get_weather stops at that call with the
\* specify-a-location prompt: the extraction is the request's last call and
\* neither the Weather Data Gateway nor the Response Synthesizer is called.
C12_NoCityStops ==
    \A r \in Reqs :
        \A i \in DOMAIN calls[r] :
            (InHandler(r) /\ ExtractedNoCity(calls[r][i]))
            => /\ i = Len(calls[r])
               /\ CallsTo(r, {"weather", "synth_weather"}) = {}
               /\ pc[r] = "respond"
               /\ response[r] = Ok(Msg("SpecifyCity"), LWA)

C12_Witness ==
    \E r \in Reqs :
        /\ pc[r] = "respond" /\ calls[r] # <<>>
        /\ ExtractedNoCity(LastCall(r))
        /\ LastCall(r).city = <<"n","u","l","l">>
        /\ response[r] = Ok(Msg("SpecifyCity"), LWA)

\* request r has answered after its synthesis call raised
SynthesisFailed(r) ==
    /\ pc[r] = "respond" /\ calls[r] # <<>>
    /\ LastCall(r).svc = "synth_weather" /\ LastCall(r).out = "error"

\* C13: when the Gateway succeeded and the synthesis call fails, the reply is
\* the templated sentence, and its location, temperature and condition are
\* exactly those of the Weather Snapshot that was normalised from the
\* provider's payload and handed to the synthesizer.
C13_FallbackFromSnapshot ==
    \A r \in Reqs :
        SynthesisFailed(r)
        => /\ frame[r].data \in {clean_weather_data(p) : p \in RawPayloads}
           /\ response[r].status = 200 /\ response[r].source = LWA
           /\ response[r].body.kind = "Templated"
           /\ response[r].body.loc = frame[r].data.location
           /\ response[r].body.temp = frame[r].data.temp
           /\ response[r].body.cond = frame[r].data.condition
           /\ \E i \in CallsTo(r, {"weather"}) : calls[r][i].out = "200"

C13_Witness ==
    \E r \in Reqs :
        /\ SynthesisFailed(r)
        /\ frame[r].data.location = "Paris, France"
        /\ response[r].body.loc = "Paris, France"
        /\ response[r].body.temp = "21.0 C"
        /\ response[r].body.cond = "Sunny"

RagCalls(r) == CallsTo(r, {"rag"})

ChatCalls(r) == CallsTo(r, {"chat"})

\* search() has returned for request r: handle_theory holds raw_knowledge
SearchReturned(r) == pc[r] = "knowledge"

\* C14: in search() for a non-greeting query, a configured store means
\* exactly one grounded call, made first; if it succeeds its text is returned
\* and no chat call is made; the chat call is made exactly once, and only
\* directly after a failed grounded call or when no store is configured (and
\* then there is no grounded call); no call is made twice.
C14_SearchCallOrder ==
    \A r \in Reqs :
        InHandler(r)
        => /\ Cardinality(RagCalls(r)) <= 1 /\ Cardinality(ChatCalls(r)) <= 1
           /\ RagCalls(r) # {} => store_id
           /\ \A i \in RagCalls(r) :
                 /\ calls[r][i].out = "ok" => ChatCalls(r) = {}
                 /\ \A j \in ChatCalls(r) : j = i + 1
           /\ ChatCalls(r) # {}
                 => \/ ~store_id /\ RagCalls(r) = {}
                    \/ \E i \in RagCalls(r) : calls[r][i].out = "error"
           /\ pc[r] = "chat" /\ store_id
                 => \E i \in RagCalls(r) : calls[r][i].out = "error"
           /\ (SearchReturned(r) /\ IsSearchGreeting(frame[r].user_query))
                 => RagCalls(r) = {} /\ ChatCalls(r) = {}
           /\ (SearchReturned(r) /\ ~IsSearchGreeting(frame[r].user_query))
                 => /\ store_id => Cardinality(RagCalls(r)) = 1
                    /\ ~store_id => Cardinality(ChatCalls(r)) = 1
                    /\ (\E i \in RagCalls(r) : calls[r][i].out = "error")
                          => Cardinality(ChatCalls(r)) = 1
                    /\ (\E i \in RagCalls(r) : calls[r][i].out = "ok")
                          => /\ LastCall(r).svc = "rag"
                             /\ frame[r].raw_knowledge
                                   \in {o.body : o \in {g \in GeminiOutcomes : g.ok}}

\* a grounded call failed and the single chat call followed it
C14_Witness ==
    \E r \in Reqs :
        /\ SearchReturned(r) /\ store_id
        /\ Len(calls[r]) = 3
        /\ calls[r][2].svc = "rag" /\ calls[r][2].out = "error"
        /\ calls[r][3].svc = "chat" /\ calls[r][3].out = "ok"

\* request r has answered after its weather fetch timed out
FetchTimedOut(r) ==
    /\ pc[r] = "respond" /\ calls[r] # <<>>
    /\ LastCall(r).svc = "weather" /\ LastCall(r).out = "timeout"

\* C15: when the weather fetch times out, get_weather answers with the
\* dedicated "The weather service is taking too long to respond" sentence
\* and not with the generic "I encountered an issue: ..." sentence.
C15_TimeoutSentence ==
    \A r \in Reqs :
        FetchTimedOut(r) => response[r] = Ok(Msg("TakingTooLong"), LWA)

\* what the code does instead: the generic sentence quoting the error text
C15_TimeoutIsGeneric ==
    \A r \in Reqs :
        FetchTimedOut(r)
        => response[r] = Ok([Msg("Issue") EXCEPT !.err = ErrTimedOut], LWA)

ExtractCalls(r) == CallsTo(r, {"extract"})

GatewayCalls(r) == CallsTo(r, {"weather"})

SynthCalls(r) == CallsTo(r, {"synth_weather"})

\* the provider answered request r's Gateway call with status 200
ProviderSucceeded(r) == \E j \in GatewayCalls(r) : calls[r][j].out = "200"

\* C16: within one get_weather request the Extractor, the Gateway and the
\* Synthesizer are called in that order, consecutively and at most once
\* each; the Gateway only after the Extractor returned a city; a Weather
\* Snapshot exists only after the provider answered 200 (never after 400,
\* 401, 403, 500, a timeout or another failure); the Synthesizer is called
\* only with such a Snapshot.
C16_StagesInOrder ==
    \A r \in Reqs :
        InHandler(r)
        => /\ Cardinality(ExtractCalls(r)) <= 1
           /\ Cardinality(GatewayCalls(r)) <= 1
           /\ Cardinality(SynthCalls(r)) <= 1
           /\ \A j \in GatewayCalls(r) :
                 /\ j - 1 \in ExtractCalls(r)
                 /\ calls[r][j - 1].out = "json"
                 /\ calls[r][j - 1].city # <<>>
                 /\ UpperStr(calls[r][j - 1].city) # NULL
           /\ \A k \in SynthCalls(r) :
                 /\ k - 1 \in GatewayCalls(r)
                 /\ calls[r][k - 1].out = "200"
                 /\ k = Len(calls[r])
           /\ pc[r] = "fetch" => ExtractCalls(r) # {} /\ GatewayCalls(r) = {}
           /\ pc[r] = "synth" => ProviderSucceeded(r) /\ SynthCalls(r) = {}
           /\ frame[r].data # NoData
                 => /\ ProviderSucceeded(r)
                    /\ frame[r].data \in {clean_weather_data(p) : p \in RawPayloads}
           /\ (pc[r] = "synth" \/ SynthCalls(r) # {}) => frame[r].data # NoData

\* all three stages ran, in order
C16_Witness ==
    \E r \in Reqs :
        /\ pc[r] = "respond" /\ Len(calls[r]) = 4
        /\ calls[r][2].svc = "extract" /\ calls[r][3].svc = "weather"
        /\ calls[r][4].svc = "synth_weather" /\ calls[r][4].out = "ok"
        /\ frame[r].data.location = "Paris, France"

\* a provider failure: the request ends at the Gateway without a Snapshot
C16_FailureReached ==
    \E r \in Reqs :
        /\ pc[r] = "respond" /\ calls[r] # <<>>
        /\ LastCall(r).svc = "weather" /\ LastCall(r).out = "500"
        /\ frame[r].data = NoData

\* C17: in a /chat weather request the location sent to the Weather Data
\* Gateway is the city the Entity Extractor returned for the merged query;
\* the merged query is never empty when get_weather is entered and carries
\* the handler's city (Router or memory) as text, so the city argument of
\* handle_live_weather is never the input, and an Extractor city that
\* differs from the handler's city is the one the Gateway receives.
C17_GatewayGetsExtractedCity ==
    \A r \in Reqs :
        InHandler(r)
        => /\ pc[r] = "get_weather"
                 => /\ frame[r].enhanced_query # <<>>
                    /\ frame[r].final_city.t = "str"
                    /\ Contains(LowerStr(frame[r].final_city.v),
                                LowerStr(frame[r].enhanced_query))
           /\ pc[r] = "fetch"
                 => LastCall(r).svc = "extract" /\ frame[r].city = LastCall(r).city
           /\ \A j \in GatewayCalls(r) :
                 /\ calls[r][j - 1].svc = "extract"
                 /\ calls[r][j].city = calls[r][j - 1].city

\* the Extractor disagreed with the handler's city and the Gateway was
\* called with the Extractor's
C17_Witness ==
    \E r \in Reqs : \E j \in GatewayCalls(r) :
        /\ InHandler(r)
        /\ frame[r].final_city = PyStr(<<"h","i">>)
        /\ calls[r][j - 1].city = <<"H">>
        /\ calls[r][j].city = <<"H">>

WhichCityReply == Ok(Msg("WhichCity"), "System")

\* request r was classified as weather and chat_endpoint has taken its
\* branch on final_city (it answered there, or is about to call
\* handle_live_weather)
WeatherBranchTaken(r) ==
    /\ frame[r].intent = "weather"
    /\ pc[r] \in {"respond", "get_weather"}

\* C18: a request classified as weather gets the "Which city are you asking
\* about?" reply with source "System", with no call but the classification,
\* exactly when its classification has no city and the memory slot was still
\* absent when it entered; once any request has classified a present city,
\* no request holds that reply.
C18_SystemReplyIffNoCityAtAll ==
    \A r \in Reqs :
        /\ WeatherBranchTaken(r)
              => ((pc[r] = "respond" /\ response[r] = WhichCityReply)
                    <=> (frame[r].detected_city \in NoCity
                           /\ frame[r].memAtEntry = PyNone))
        /\ response[r].source = "System"
              => /\ response[r] = WhichCityReply
                 /\ pc[r] = "respond" /\ frame[r].intent = "weather"
                 /\ Len(calls[r]) = 1 /\ calls[r][1].svc = "classify"
                 /\ user_session = PyNone
        /\ lastClassified # PyNone => response[r].source # "System"

C18_Witness ==
    \E r \in Reqs :
        /\ pc[r] = "respond" /\ response[r] = WhichCityReply
        /\ frame[r].detected_city = PyStr(NULL)
        /\ frame[r].memAtEntry = PyNone

\* a later weather request without a city, after one was classified, goes on
\* to the Weather Orchestrator with the remembered city
C18_RememberedReached ==
    \E r \in Reqs :
        /\ WeatherBranchTaken(r) /\ pc[r] = "get_weather"
        /\ frame[r].detected_city \in NoCity
        /\ frame[r].memAtEntry = PyStr(<<"h","i">>)

====
